---- MODULE Spec2Model ----
(***************************************************************************)
(* A model of examples/serde_compat.rs: legacy_format::serialize and       *)
(* legacy_format::deserialize (with its BitsVisitor::visit_map), together  *)
(* with the part of main that sends a flags value through both.            *)
(*                                                                         *)
(* The serde output framework (Serializer / SerializeStruct) and input     *)
(* framework (Deserializer / MapAccess) are the environment.  A serializer *)
(* is a sink of record events that may fail at one of its three calls; a   *)
(* deserializer is an incoming record: a type-name label, whether the      *)
(* record can be entered, and a finite sequence of entries, each a key and *)
(* a value, either of which the framework may be unable to produce.        *)
(***************************************************************************)
EXTENDS Integers, Sequences, FiniteSets, TLC

(***************************************************************************)
(* Bounds of the model.                                                    *)
(***************************************************************************)
\* Width, in bits, of the raw integers that are enumerated (Flags is a u32;
\* the named flags fill bits 0..3, so a width of 5 has one unnamed bit).
BitsWidth == 5
\* The longest incoming record, in entries.
MaxFields == 3

\* The longest incoming record of a call that runs beside another call.
MaxConcurrentFields == 2

(***************************************************************************)
(* The flags type of main: bitflags! { struct Flags: u32 { A B C D } }     *)
(***************************************************************************)
A == 1
B == 2
C == 4
D == 8

RECURSIVE Pow2(_)
Pow2(n) == IF n = 0 THEN 1 ELSE 2 * Pow2(n - 1)

\* Every value of <T as BitFlags>::Bits that the model enumerates.
RawIntegers == 0 .. (Pow2(BitsWidth) - 1)

\* The union of the named flags (A | B | C | D); the flags are bits 0..3.
AllNamed == A + B + C + D

\* T::from_bits_retain: the flags value holding exactly the given bits.
from_bits_retain(b) == [bits |-> b]

\* T::bits: the full raw integer of a flags value.
bits_of(f) == f.bits

\* T::from_bits_truncate: the flags value with the unnamed bits removed.
from_bits_truncate(b) == [bits |-> b % (AllNamed + 1)]

FlagSets == { from_bits_retain(b) : b \in RawIntegers }

\* core::any::type_name::<T>()
TypeName == "serde_compat::main::Flags"

(***************************************************************************)
(* Option and Result values.                                               *)
(***************************************************************************)
None == << >>
Some(x) == << x >>
is_some(o) == o # None
unwrap(o) == o[1]

Ok(v) == [tag |-> "Ok", val |-> v]
Err(e) == [tag |-> "Err", err |-> e]
is_ok(r) == r.tag = "Ok"
is_err(r) == r.tag = "Err"

(***************************************************************************)
(* Errors.  serde::de::Error's constructors build the three structural     *)
(* errors; an error the framework raises by itself names the call that     *)
(* raised it.                                                              *)
(***************************************************************************)
duplicate_field(f) == [kind |-> "DuplicateField", field |-> f, expected |-> << >>]
unknown_field(f, exp) == [kind |-> "UnknownField", field |-> f, expected |-> exp]
missing_field(f) == [kind |-> "MissingField", field |-> f, expected |-> << >>]
TransportError(site) == [kind |-> "Transport", field |-> site, expected |-> << >>]

(***************************************************************************)
(* The output framework.  A serializer fails at the call failAt names, or  *)
(* at none.  The events it accepted are the sink's content.                *)
(***************************************************************************)
SerializerCalls == {"serialize_struct", "serialize_field", "end"}
Serializers == [failAt : SerializerCalls \cup {"none"}]

BeginEvent(name, len) == [call |-> "serialize_struct", name |-> name, arg |-> len]
FieldEvent(name, v) == [call |-> "serialize_field", name |-> name, arg |-> v]
EndEvent == [call |-> "end", name |-> "", arg |-> 0]

(***************************************************************************)
(* The input framework.  An entry whose key is Malformed is one whose key  *)
(* the framework cannot read (next_key fails); a value outside the raw     *)
(* integers is one next_value cannot read as <T as BitFlags>::Bits.        *)
(***************************************************************************)
Malformed == "<malformed>"
FieldNames == {"bits", "extra", "flags"}
\* The values of the entries of an incoming record: no bit, named bits only,
\* every bit of the width (named and unnamed), and an integer that is no value
\* of the raw integer type.
WireValues == {0, A + B, Pow2(BitsWidth) - 1, -1}
Labels == {TypeName, "other::Flags"}

Entries ==
  [key : FieldNames, value : WireValues] \cup {[key |-> Malformed, value |-> 0]}

RECURSIVE SeqsUpTo(_, _)
SeqsUpTo(S, n) ==
  IF n = 0 THEN {<< >>}
  ELSE LET shorter == SeqsUpTo(S, n - 1)
       IN shorter \cup { Append(s, x) : s \in {t \in shorter : Len(t) = n - 1}, x \in S }

Deserializers ==
  [label : Labels, enter : BOOLEAN, fields : SeqsUpTo(Entries, MaxFields)]

NoDeserializer == [label |-> "", enter |-> FALSE, fields |-> << >>]
NoSerializer == [failAt |-> "none"]

VARIABLES
  flags,        \* main: the flags value being sent, if any
  serialized,   \* main: the record serialize emitted for it, if any
  op,           \* per call: "none", "serialize" or "deserialize"
  pc,           \* per call: the call the routine makes next
  value,        \* per call: serialize's argument flags
  serializer,   \* per call: serialize's argument serializer
  deserializer, \* per call: deserialize's argument deserializer
  bits,         \* per call: visit_map's local `bits`
  pos,          \* per call: the entries the MapAccess has consumed
  sink,         \* per call: the events the serializer accepted
  trace,        \* per call: the calls made so far, in order
  result        \* per call: what the routine returned, if it has

vars == << flags, serialized, op, pc, value, serializer, deserializer,
           bits, pos, sink, trace, result >>


Calls == DOMAIN pc

\* Propagate, had a framework error been mapped to a structural one
\* (.map_err(|_| Error::missing_field("bits"))).
PropagateReinterpreting(e) ==
  IF e.kind = "Transport" THEN missing_field("bits") ELSE e

\* The `?` operator: the error is returned as it is (From::from is the identity
\* between equal error types).
Propagate(e) == e

(***************************************************************************)
(* The framework's answers.                                                *)
(***************************************************************************)
\* A call of the serializer (or of its SerializeStruct): fails where s says so.
SerializerCall(s, call) ==
  IF s.failAt = call THEN Err(TransportError(call)) ELSE Ok(None)

\* MapAccess::next_key after p entries were consumed: no key at the end of the
\* record, an error where the key cannot be read, the key otherwise.
next_key(d, p) ==
  IF p >= Len(d.fields) THEN Ok(None)
  ELSE IF d.fields[p + 1].key = Malformed THEN Err(TransportError("next_key"))
  ELSE Ok(Some(d.fields[p + 1].key))

\* MapAccess::next_value for the entry whose key was read last: the value as a
\* raw integer, or an error when it is none.
next_value(d, p) ==
  IF d.fields[p + 1].value \in RawIntegers
  THEN Ok(d.fields[p + 1].value)
  ELSE Err(TransportError("next_value"))

\* The record a transport carries for the events a sink accepted (main:
\* serde_json::to_string, read back by serde_json::from_str): the label of the
\* begin event and one entry per field event, in order.
WireRecord(snk) ==
  LET fs == SelectSeq(snk, LAMBDA e : e.call = "serialize_field")
      bs == SelectSeq(snk, LAMBDA e : e.call = "serialize_struct")
  IN [label |-> IF bs = << >> THEN "" ELSE bs[1].name,
      enter |-> bs # << >>,
      fields |-> [i \in 1 .. Len(fs) |-> [key |-> fs[i].name, value |-> fs[i].arg]]]

(***************************************************************************)
(* legacy_format::serialize                                                *)
(***************************************************************************)
\* The arguments of serializer.serialize_struct(type_name::<T>(), 1).
StructEvent == BeginEvent(TypeName, 1)

\* BitsFieldEvent, had it written only the named bits.
BitsFieldEventMasked(f) == FieldEvent("bits", bits_of(from_bits_truncate(bits_of(f))))

\* The arguments of serialize_struct.serialize_field("bits", &flags.bits()).
BitsFieldEvent(f) == FieldEvent("bits", bits_of(f))

Return(c, r) ==
  /\ result' = [result EXCEPT ![c] = Some(r)]
  /\ pc' = [pc EXCEPT ![c] = "done"]

Called(c, call) == trace' = [trace EXCEPT ![c] = Append(@, call)]

StartSerialize(c, f, s) ==
  /\ pc[c] = "idle"
  /\ flags' = Some(f)
  /\ serialized' = None
  /\ op' = [op EXCEPT ![c] = "serialize"]
  /\ pc' = [pc EXCEPT ![c] = "serialize_struct"]
  /\ value' = [value EXCEPT ![c] = Some(f)]
  /\ serializer' = [serializer EXCEPT ![c] = s]
  /\ deserializer' = [deserializer EXCEPT ![c] = NoDeserializer]
  /\ bits' = [bits EXCEPT ![c] = None]
  /\ pos' = [pos EXCEPT ![c] = 0]
  /\ sink' = [sink EXCEPT ![c] = << >>]
  /\ trace' = [trace EXCEPT ![c] = << >>]
  /\ result' = [result EXCEPT ![c] = None]

\* let mut serialize_struct = serializer.serialize_struct(type_name::<T>(), 1)?;
SerializeStruct(c) ==
  /\ pc[c] = "serialize_struct"
  /\ Called(c, "serialize_struct")
  /\ LET r == SerializerCall(serializer[c], "serialize_struct")
     IN IF is_err(r)
        THEN /\ Return(c, Err(Propagate(r.err)))
             /\ sink' = sink
        ELSE /\ sink' = [sink EXCEPT ![c] = Append(@, StructEvent)]
             /\ pc' = [pc EXCEPT ![c] = "serialize_field"]
             /\ result' = result
  /\ UNCHANGED << flags, serialized, op, value, serializer, deserializer, bits, pos >>

\* SerializeField, had the result of serialize_field been dropped
\* (let _ = serialize_struct.serialize_field(..)).
SerializeFieldIgnoringError(c) ==
  /\ pc[c] = "serialize_field"
  /\ Called(c, "serialize_field")
  /\ LET r == SerializerCall(serializer[c], "serialize_field")
     IN /\ sink' = [sink EXCEPT ![c] = IF is_err(r) THEN @
                                       ELSE Append(@, BitsFieldEvent(unwrap(value[c])))]
        /\ pc' = [pc EXCEPT ![c] = "end"]
        /\ result' = result
  /\ UNCHANGED << flags, serialized, op, value, serializer, deserializer, bits, pos >>

\* serialize_struct.serialize_field("bits", &flags.bits())?;
SerializeField(c) ==
  /\ pc[c] = "serialize_field"
  /\ Called(c, "serialize_field")
  /\ LET r == SerializerCall(serializer[c], "serialize_field")
     IN IF is_err(r)
        THEN /\ Return(c, Err(Propagate(r.err)))
             /\ sink' = sink
        ELSE /\ sink' = [sink EXCEPT ![c] = Append(@, BitsFieldEvent(unwrap(value[c])))]
             /\ pc' = [pc EXCEPT ![c] = "end"]
             /\ result' = result
  /\ UNCHANGED << flags, serialized, op, value, serializer, deserializer, bits, pos >>

\* serialize_struct.end(), whose result serialize returns; main keeps the
\* record that was emitted (let serialized = serde_json::to_string(&flags)).
SerializeEnd(c) ==
  /\ pc[c] = "end"
  /\ Called(c, "end")
  /\ LET r == SerializerCall(serializer[c], "end")
     IN IF is_err(r)
        THEN /\ Return(c, r)
             /\ sink' = sink
             /\ serialized' = serialized
        ELSE /\ sink' = [sink EXCEPT ![c] = Append(@, EndEvent)]
             /\ Return(c, r)
             /\ serialized' = Some(WireRecord(sink'[c]))
  /\ UNCHANGED << flags, op, value, serializer, deserializer, bits, pos >>

(***************************************************************************)
(* legacy_format::deserialize and BitsVisitor::visit_map                   *)
(***************************************************************************)
\* VisitKey without the check of bits.is_some().
VisitKeyOverwriting(acc, key) ==
  IF key = "bits" THEN Ok("next_value") ELSE Err(unknown_field(key, << "bits" >>))

\* VisitKey, had a repeated `bits` been reported with the wrong constructor.
VisitKeyMisreporting(acc, key) ==
  IF key = "bits"
  THEN IF is_some(acc) THEN Err(unknown_field("bits", << "bits" >>)) ELSE Ok("next_value")
  ELSE Err(unknown_field(key, << "bits" >>))

\* VisitKey, had the error named the expected field instead of the offending one.
VisitKeyMisnaming(acc, key) ==
  IF key = "bits"
  THEN IF is_some(acc) THEN Err(duplicate_field("bits")) ELSE Ok("next_value")
  ELSE Err(unknown_field("bits", << "bits" >>))

\* VisitKey, had unknown_field been given no list of the recognized names.
VisitKeyListless(acc, key) ==
  IF key = "bits"
  THEN IF is_some(acc) THEN Err(duplicate_field("bits")) ELSE Ok("next_value")
  ELSE Err(unknown_field(key, << >>))

\* VisitKey, had the name of the key not been matched.
VisitKeyAnyName(acc, key) ==
  IF is_some(acc) THEN Err(duplicate_field("bits")) ELSE Ok("next_value")

\* match key { "bits" => { if bits.is_some() { return Err(duplicate_field) } .. }
\*             v => return Err(unknown_field(v, &["bits"])) }
\* Ok: the value of the entry is read next.
VisitKey(acc, key) ==
  IF key = "bits"
  THEN IF is_some(acc) THEN Err(duplicate_field("bits")) ELSE Ok("next_value")
  ELSE Err(unknown_field(key, << "bits" >>))

\* VisitEnd, had it been bits.unwrap_or_default().
VisitEndDefaulting(acc) ==
  IF is_some(acc) THEN Ok(unwrap(acc)) ELSE Ok(0)

\* bits.ok_or_else(|| Error::missing_field("bits"))
VisitEnd(acc) ==
  IF is_some(acc) THEN Ok(unwrap(acc)) ELSE Err(missing_field("bits"))

\* Reconstruct, had it used T::from_bits_truncate.
ReconstructTruncating(b) == Ok(from_bits_truncate(b))

\* Ok(T::from_bits_retain(bits))
Reconstruct(b) == Ok(from_bits_retain(b))

BeginDeserialize(c, d) ==
  /\ op' = [op EXCEPT ![c] = "deserialize"]
  /\ pc' = [pc EXCEPT ![c] = "deserialize_struct"]
  /\ value' = [value EXCEPT ![c] = None]
  /\ serializer' = [serializer EXCEPT ![c] = NoSerializer]
  /\ deserializer' = [deserializer EXCEPT ![c] = d]
  /\ bits' = [bits EXCEPT ![c] = None]
  /\ pos' = [pos EXCEPT ![c] = 0]
  /\ sink' = [sink EXCEPT ![c] = << >>]
  /\ trace' = [trace EXCEPT ![c] = << >>]
  /\ result' = [result EXCEPT ![c] = None]

\* deserialize called on an incoming record of any shape.
StartDeserialize(c, d) ==
  /\ pc[c] = "idle"
  /\ BeginDeserialize(c, d)
  /\ flags' = None
  /\ serialized' = None

\* main: let deserialized: Flags = serde_json::from_str(&serialized)
StartDeserializeSerialized(c) ==
  /\ pc[c] = "done"
  /\ op[c] = "serialize"
  /\ is_some(serialized)
  /\ BeginDeserialize(c, unwrap(serialized))
  /\ UNCHANGED << flags, serialized >>

\* DeserializeStruct, had the label of the record been compared with the
\* type name.
DeserializeStructCheckingLabel(c) ==
  /\ pc[c] = "deserialize_struct"
  /\ Called(c, "deserialize_struct")
  /\ IF ~deserializer[c].enter \/ deserializer[c].label # TypeName
     THEN Return(c, Err(Propagate(TransportError("deserialize_struct"))))
     ELSE /\ pc' = [pc EXCEPT ![c] = "next_key"]
          /\ result' = result
  /\ bits' = [bits EXCEPT ![c] = None]
  /\ UNCHANGED << flags, serialized, op, value, serializer, deserializer, pos, sink >>

\* deserializer.deserialize_struct(type_name::<T>(), &["bits"], BitsVisitor(..)):
\* the framework fails, or calls visit_map, which begins with `bits = None`.
DeserializeStruct(c) ==
  /\ pc[c] = "deserialize_struct"
  /\ Called(c, "deserialize_struct")
  /\ IF ~deserializer[c].enter
     THEN Return(c, Err(Propagate(TransportError("deserialize_struct"))))
     ELSE /\ pc' = [pc EXCEPT ![c] = "next_key"]
          /\ result' = result
  /\ bits' = [bits EXCEPT ![c] = None]
  /\ UNCHANGED << flags, serialized, op, value, serializer, deserializer, pos, sink >>

\* NextKey, had a key that cannot be read been asked for again
\* (Err(_) => continue).
NextKeyRetrying(c) ==
  /\ pc[c] = "next_key"
  /\ LET k == next_key(deserializer[c], pos[c])
     IN IF is_err(k)
        THEN UNCHANGED << trace, result, pc, bits >>
        ELSE /\ Called(c, "next_key")
             /\ IF k.val = None
                THEN LET r == VisitEnd(bits[c])
                     IN IF is_err(r)
                        THEN /\ Return(c, Err(Propagate(r.err)))
                             /\ bits' = bits
                        ELSE /\ bits' = [bits EXCEPT ![c] = Some(r.val)]
                             /\ pc' = [pc EXCEPT ![c] = "from_bits_retain"]
                             /\ result' = result
                ELSE LET m == VisitKey(bits[c], unwrap(k.val))
                     IN IF is_err(m)
                        THEN /\ Return(c, Err(Propagate(m.err)))
                             /\ bits' = bits
                        ELSE /\ pc' = [pc EXCEPT ![c] = "next_value"]
                             /\ result' = result
                             /\ bits' = bits
  /\ UNCHANGED << flags, serialized, op, value, serializer, deserializer, pos, sink >>

\* NextKey, had the check of a repeated `bits` emptied the accumulator
\* (if bits.take().is_some()).
NextKeyTaking(c) ==
  /\ pc[c] = "next_key"
  /\ Called(c, "next_key")
  /\ LET k == next_key(deserializer[c], pos[c])
     IN IF is_err(k)
        THEN /\ Return(c, Err(Propagate(k.err)))
             /\ bits' = bits
        ELSE IF k.val = None
        THEN LET r == VisitEnd(bits[c])
             IN IF is_err(r)
                THEN /\ Return(c, Err(Propagate(r.err)))
                     /\ bits' = bits
                ELSE /\ bits' = [bits EXCEPT ![c] = Some(r.val)]
                     /\ pc' = [pc EXCEPT ![c] = "from_bits_retain"]
                     /\ result' = result
        ELSE LET m == VisitKey(bits[c], unwrap(k.val))
             IN IF is_err(m)
                THEN /\ Return(c, Err(Propagate(m.err)))
                     /\ bits' = [bits EXCEPT ![c] = IF unwrap(k.val) = "bits" THEN None ELSE @]
                ELSE /\ pc' = [pc EXCEPT ![c] = "next_value"]
                     /\ result' = result
                     /\ bits' = bits
  /\ UNCHANGED << flags, serialized, op, value, serializer, deserializer, pos, sink >>

\* while let Some(key) = map.next_key()? { match key { .. } }, up to the call of
\* next_value; at the end of the record, bits.ok_or_else(..) and the return of
\* visit_map through deserialize_struct(..)?, whose value is bound by
\* `let bits = ..` in deserialize.
NextKey(c) ==
  /\ pc[c] = "next_key"
  /\ Called(c, "next_key")
  /\ LET k == next_key(deserializer[c], pos[c])
     IN IF is_err(k)
        THEN /\ Return(c, Err(Propagate(k.err)))
             /\ bits' = bits
        ELSE IF k.val = None
        THEN LET r == VisitEnd(bits[c])
             IN IF is_err(r)
                THEN /\ Return(c, Err(Propagate(r.err)))
                     /\ bits' = bits
                ELSE /\ bits' = [bits EXCEPT ![c] = Some(r.val)]
                     /\ pc' = [pc EXCEPT ![c] = "from_bits_retain"]
                     /\ result' = result
        ELSE LET m == VisitKey(bits[c], unwrap(k.val))
             IN IF is_err(m)
                THEN /\ Return(c, Err(Propagate(m.err)))
                     /\ bits' = bits
                ELSE /\ pc' = [pc EXCEPT ![c] = "next_value"]
                     /\ result' = result
                     /\ bits' = bits
  /\ UNCHANGED << flags, serialized, op, value, serializer, deserializer, pos, sink >>

\* NextValue, had the visitor built the flags value itself
\* (bits = Some(T::from_bits_retain(map.next_value()?))).
NextValueConstructing(c) ==
  /\ pc[c] = "next_value"
  /\ LET v == next_value(deserializer[c], pos[c])
     IN IF is_err(v)
        THEN /\ Called(c, "next_value")
             /\ Return(c, Err(Propagate(v.err)))
             /\ UNCHANGED << bits, pos >>
        ELSE /\ trace' = [trace EXCEPT ![c] = @ \o << "next_value", "from_bits_retain" >>]
             /\ bits' = [bits EXCEPT ![c] = Some(v.val)]
             /\ pos' = [pos EXCEPT ![c] = @ + 1]
             /\ pc' = [pc EXCEPT ![c] = "next_key"]
             /\ result' = result
  /\ UNCHANGED << flags, serialized, op, value, serializer, deserializer, sink >>

\* NextValue, had `bits` been one accumulator shared by every call (a static)
\* instead of a local of visit_map.
NextValueShared(c) ==
  /\ pc[c] = "next_value"
  /\ Called(c, "next_value")
  /\ LET v == next_value(deserializer[c], pos[c])
     IN IF is_err(v)
        THEN /\ Return(c, Err(Propagate(v.err)))
             /\ UNCHANGED << bits, pos >>
        ELSE /\ bits' = [b \in Calls |-> Some(v.val)]
             /\ pos' = [pos EXCEPT ![c] = @ + 1]
             /\ pc' = [pc EXCEPT ![c] = "next_key"]
             /\ result' = result
  /\ UNCHANGED << flags, serialized, op, value, serializer, deserializer, sink >>

\* NextValue, had a value that cannot be read been passed over
\* (if let Ok(v) = map.next_value() { bits = Some(v) }).
NextValueDeferring(c) ==
  /\ pc[c] = "next_value"
  /\ Called(c, "next_value")
  /\ LET v == next_value(deserializer[c], pos[c])
     IN /\ bits' = [bits EXCEPT ![c] = IF is_err(v) THEN @ ELSE Some(v.val)]
        /\ pos' = [pos EXCEPT ![c] = @ + 1]
        /\ pc' = [pc EXCEPT ![c] = "next_key"]
        /\ result' = result
  /\ UNCHANGED << flags, serialized, op, value, serializer, deserializer, sink >>

\* bits = Some(map.next_value()?);
NextValue(c) ==
  /\ pc[c] = "next_value"
  /\ Called(c, "next_value")
  /\ LET v == next_value(deserializer[c], pos[c])
     IN IF is_err(v)
        THEN /\ Return(c, Err(Propagate(v.err)))
             /\ UNCHANGED << bits, pos >>
        ELSE /\ bits' = [bits EXCEPT ![c] = Some(v.val)]
             /\ pos' = [pos EXCEPT ![c] = @ + 1]
             /\ pc' = [pc EXCEPT ![c] = "next_key"]
             /\ result' = result
  /\ UNCHANGED << flags, serialized, op, value, serializer, deserializer, sink >>

\* Ok(T::from_bits_retain(bits))
FromBitsRetain(c) ==
  /\ pc[c] = "from_bits_retain"
  /\ Called(c, "from_bits_retain")
  /\ Return(c, Reconstruct(unwrap(bits[c])))
  /\ UNCHANGED << flags, serialized, op, value, serializer, deserializer, bits, pos, sink >>

(***************************************************************************)
(* One run: an encode, a decode of any incoming record, or main's encode   *)
(* followed by the decode of the record it emitted.  No state passes from  *)
(* one call to another, so every run starts from the initial state.        *)
(***************************************************************************)
InitCalls(ids) ==
  /\ flags = None
  /\ serialized = None
  /\ op = [c \in ids |-> "none"]
  /\ pc = [c \in ids |-> "idle"]
  /\ value = [c \in ids |-> None]
  /\ serializer = [c \in ids |-> NoSerializer]
  /\ deserializer = [c \in ids |-> NoDeserializer]
  /\ bits = [c \in ids |-> None]
  /\ pos = [c \in ids |-> 0]
  /\ sink = [c \in ids |-> << >>]
  /\ trace = [c \in ids |-> << >>]
  /\ result = [c \in ids |-> None]

Init == InitCalls({1})

Next ==
  \/ \E c \in Calls : pc[c] = "idle" /\ \E f \in FlagSets, s \in Serializers : StartSerialize(c, f, s)
  \/ \E c \in Calls : SerializeStruct(c)
  \/ \E c \in Calls : SerializeField(c)
  \/ \E c \in Calls : SerializeEnd(c)
  \/ \E c \in Calls : pc[c] = "idle" /\ \E d \in Deserializers : StartDeserialize(c, d)
  \/ \E c \in Calls : StartDeserializeSerialized(c)
  \/ \E c \in Calls : DeserializeStruct(c)
  \/ \E c \in Calls : NextKey(c)
  \/ \E c \in Calls : NextValue(c)
  \/ \E c \in Calls : FromBitsRetain(c)

Spec == Init /\ [][Next]_vars

(***************************************************************************)
(* One decode that runs to its return.  deserialize is synchronous and     *)
(* nothing in it waits, so the step a call can take is taken.  The records *)
(* have every shape of at most MaxFields entries; their values are one raw *)
(* integer and one integer that is none.                                   *)
(***************************************************************************)
ShapeEntries ==
  [key : FieldNames, value : {A + B, -1}] \cup {[key |-> Malformed, value |-> 0]}

ShapeDeserializers ==
  [label : {TypeName}, enter : BOOLEAN, fields : SeqsUpTo(ShapeEntries, MaxFields)]

DecodeSteps ==
  \E c \in Calls :
    DeserializeStruct(c) \/ NextKey(c) \/ NextValue(c) \/ FromBitsRetain(c)

NextDecode ==
  \/ \E c \in Calls : pc[c] = "idle" /\ \E d \in ShapeDeserializers : StartDeserialize(c, d)
  \/ \E c \in Calls : DeserializeStruct(c)
  \/ \E c \in Calls : NextKey(c)
  \/ \E c \in Calls : NextValue(c)
  \/ \E c \in Calls : FromBitsRetain(c)

SpecDecode == Init /\ [][NextDecode]_vars /\ WF_vars(DecodeSteps)

(***************************************************************************)
(* Two decodes, one after the other, of records that carry the same        *)
(* entries under different type-name labels.                               *)
(***************************************************************************)
StartPair(d, other) ==
  /\ \A c \in Calls : pc[c] = "idle"
  /\ other # d.label
  /\ op' = [c \in Calls |-> "deserialize"]
  /\ pc' = [c \in Calls |-> "deserialize_struct"]
  /\ deserializer' = [c \in Calls |-> IF c = 1 THEN d ELSE [d EXCEPT !.label = other]]
  /\ UNCHANGED << flags, serialized, value, serializer, bits, pos, sink, trace, result >>

\* The calls take their turns in the order of their numbers.
Turn(c) == \A b \in Calls : b < c => pc[b] = "done"

InitPair == InitCalls({1, 2})

NextPair ==
  \/ \E c \in Calls : pc[c] = "idle" /\ \E d \in Deserializers, l \in Labels : StartPair(d, l)
  \/ \E c \in Calls : Turn(c) /\ DeserializeStruct(c)
  \/ \E c \in Calls : Turn(c) /\ NextKey(c)
  \/ \E c \in Calls : Turn(c) /\ NextValue(c)
  \/ \E c \in Calls : Turn(c) /\ FromBitsRetain(c)

SpecPair == InitPair /\ [][NextPair]_vars

(***************************************************************************)
(* Concurrent calls.  Call 0 runs alone, from the initial state.  Then     *)
(* call 1, given the arguments call 0 had, and call 2, given any           *)
(* arguments, run beside each other: each starts at any moment and their   *)
(* steps interleave in every order.  `serialized` is here the caller's     *)
(* copy of the record emitted last; no call reads it.                      *)
(***************************************************************************)
ConcurrentFlagSets == { from_bits_retain(A + B), from_bits_retain(Pow2(BitsWidth) - 1) }

ConcurrentEntries ==
  [key : {"bits"}, value : {A + B, Pow2(BitsWidth) - 1, -1}]
    \cup {[key |-> "extra", value |-> 0], [key |-> Malformed, value |-> 0]}

ConcurrentDeserializers ==
  [label : {TypeName}, enter : {TRUE},
   fields : SeqsUpTo(ConcurrentEntries, MaxConcurrentFields)]
    \cup {[label |-> TypeName, enter |-> FALSE, fields |-> << >>]}

\* The arguments of a call of serialize or of deserialize.
ConcurrentInputs ==
  [op : {"serialize"}, value : { Some(f) : f \in ConcurrentFlagSets },
   serializer : Serializers, deserializer : {NoDeserializer}]
    \cup [op : {"deserialize"}, value : {None},
          serializer : {NoSerializer}, deserializer : ConcurrentDeserializers]

InputOf(c) ==
  [op |-> op[c], value |-> value[c],
   serializer |-> serializer[c], deserializer |-> deserializer[c]]

\* The entry of serialize or deserialize in call c, with the arguments in.
StartCall(c, in) ==
  /\ pc[c] = "idle"
  /\ op' = [op EXCEPT ![c] = in.op]
  /\ pc' = [pc EXCEPT ![c] = IF in.op = "serialize" THEN "serialize_struct"
                                                    ELSE "deserialize_struct"]
  /\ value' = [value EXCEPT ![c] = in.value]
  /\ serializer' = [serializer EXCEPT ![c] = in.serializer]
  /\ deserializer' = [deserializer EXCEPT ![c] = in.deserializer]
  /\ UNCHANGED << flags, serialized, bits, pos, sink, trace, result >>

InitConcurrent == InitCalls({0, 1, 2})

NextConcurrent ==
  \/ (\A c \in Calls : pc[c] = "idle") /\ \E in \in ConcurrentInputs : StartCall(0, in)
  \/ pc[0] = "done" /\ StartCall(1, InputOf(0))
  \/ pc[0] = "done" /\ pc[2] = "idle" /\ \E in \in ConcurrentInputs : StartCall(2, in)
  \/ \E c \in Calls : SerializeStruct(c)
  \/ \E c \in Calls : SerializeField(c)
  \/ \E c \in Calls : SerializeEnd(c)
  \/ \E c \in Calls : DeserializeStruct(c)
  \/ \E c \in Calls : NextKey(c)
  \/ \E c \in Calls : NextValue(c)
  \/ \E c \in Calls : FromBitsRetain(c)

SpecConcurrent == InitConcurrent /\ [][NextConcurrent]_vars

(***************************************************************************)
(* Properties.                                                             *)
(***************************************************************************)
Decoded(c) == op[c] = "deserialize" /\ pc[c] = "done"
Encoded(c) == op[c] = "serialize" /\ pc[c] = "done"
Fields(c) == deserializer[c].fields
Outcome(c) == unwrap(result[c])

\* The indices of the entries of call c's record whose key is k.
Having(c, k) == { i \in 1 .. Len(Fields(c)) : Fields(c)[i].key = k }
Foreign(c) == { i \in 1 .. Len(Fields(c)) : Fields(c)[i].key \notin {"bits", Malformed} }
Min(S) == CHOOSE x \in S : \A y \in S : x <= y

\* The record of call c can be entered, every key of it can be read and every
\* value of it is a raw integer.
Clean(c) ==
  /\ deserializer[c].enter
  /\ \A i \in 1 .. Len(Fields(c)) :
       Fields(c)[i].key # Malformed /\ Fields(c)[i].value >= 0

\* C1. Round trip: serialize, on a serializer that does not fail, emits a
\* record for every flags value; when main decodes that record, the decode
\* succeeds and the value it returns has exactly the raw bits of the value that
\* was encoded, unnamed bits included.
RoundTrip ==
  \A c \in Calls :
    /\ (Encoded(c) /\ serializer[c].failAt = "none") =>
         /\ is_some(serialized)
         /\ unwrap(serialized).enter
         /\ unwrap(serialized).fields = << [key |-> "bits", value |-> unwrap(flags).bits] >>
    /\ (Decoded(c) /\ is_some(serialized)) =>
         /\ is_ok(Outcome(c))
         /\ Outcome(c).val.bits = unwrap(flags).bits

\* A round trip of a value that has a bit outside A | B | C | D has completed.
RoundTripWitness ==
  \E c \in Calls :
    /\ Decoded(c) /\ is_some(serialized)
    /\ unwrap(flags).bits > 15
    /\ is_ok(Outcome(c))

\* C2. Encode, on a serializer that does not fail, begins one record of one
\* field, writes the one field `bits` holding the value's raw integer, and ends
\* the record; at every moment what was written is a prefix of exactly that.
ExpectedSink(c) ==
  << [call |-> "serialize_struct", name |-> "serde_compat::main::Flags", arg |-> 1],
     [call |-> "serialize_field", name |-> "bits", arg |-> unwrap(value[c]).bits],
     [call |-> "end", name |-> "", arg |-> 0] >>

EncodeSequence ==
  \A c \in Calls :
    op[c] = "serialize" =>
      /\ Len(sink[c]) <= 3
      /\ sink[c] = SubSeq(ExpectedSink(c), 1, Len(sink[c]))
      /\ (pc[c] = "done" /\ serializer[c].failAt = "none") =>
           /\ sink[c] = ExpectedSink(c)
           /\ trace[c] = << "serialize_struct", "serialize_field", "end" >>

\* A | B has been encoded as the one field bits = 3.
EncodeSequenceWitness ==
  \E c \in Calls :
    /\ Encoded(c) /\ serializer[c].failAt = "none"
    /\ unwrap(value[c]).bits = 3
    /\ Len(sink[c]) = 3 /\ sink[c][2].arg = 3

\* C3. A decode that met no framework error succeeds exactly when its record
\* is one entry whose key is `bits`, and the value it returns then has the raw
\* bits of that entry.
ExactConformance ==
  \A c \in Calls :
    (Decoded(c) /\ ~(is_err(Outcome(c)) /\ Outcome(c).err.kind = "Transport")) =>
      /\ is_ok(Outcome(c)) <=> (Len(Fields(c)) = 1 /\ Fields(c)[1].key = "bits")
      /\ is_ok(Outcome(c)) => Outcome(c).val.bits = Fields(c)[1].value

\* A record of the one entry `bits` whose value has an unnamed bit was decoded.
ExactConformanceWitness ==
  \E c \in Calls :
    /\ Decoded(c) /\ serialized = None
    /\ is_ok(Outcome(c))
    /\ Outcome(c).val.bits > 15

\* C4, as stated. Every clean record that has the key `bits` twice fails with
\* DuplicateField.
DuplicateAlwaysReported ==
  \A c \in Calls :
    (Decoded(c) /\ Clean(c) /\ Cardinality(Having(c, "bits")) >= 2) =>
      Outcome(c) = [tag |-> "Err",
                    err |-> [kind |-> "DuplicateField", field |-> "bits", expected |-> << >>]]

\* C4, amended. A record that has the key `bits` twice fails; it fails with
\* DuplicateField, whatever the two values are, when it can be entered, its
\* first two entries are the two `bits` and the first value is a raw integer.
DuplicateRejected ==
  \A c \in Calls :
    (Decoded(c) /\ Cardinality(Having(c, "bits")) >= 2) =>
      /\ is_err(Outcome(c))
      /\ ( /\ deserializer[c].enter
           /\ Fields(c)[1].key = "bits" /\ Fields(c)[2].key = "bits"
           /\ Fields(c)[1].value >= 0 ) =>
           Outcome(c) = [tag |-> "Err",
                         err |-> [kind |-> "DuplicateField", field |-> "bits",
                                  expected |-> << >>]]

\* Two `bits` whose values differ were rejected as a duplicate.
DuplicateRejectedWitness ==
  \E c \in Calls :
    /\ Decoded(c)
    /\ Len(Fields(c)) = 2
    /\ Fields(c)[1].key = "bits" /\ Fields(c)[2].key = "bits"
    /\ Fields(c)[1].value # Fields(c)[2].value
    /\ is_err(Outcome(c)) /\ Outcome(c).err.kind = "DuplicateField"

\* C5, as stated. Every clean record that has a key other than `bits` fails
\* with UnknownField naming such a key, wherever the key stands.
UnknownAlwaysReported ==
  \A c \in Calls :
    (Decoded(c) /\ Clean(c) /\ Foreign(c) # {}) =>
      \E i \in Foreign(c) :
        Outcome(c) = [tag |-> "Err",
                      err |-> [kind |-> "UnknownField", field |-> Fields(c)[i].key,
                               expected |-> << "bits" >>]]

\* C5, amended. A record that has a key other than `bits` fails; it fails with
\* UnknownField naming the first such key when the record can be entered and
\* nothing, or one `bits` whose value is a raw integer, stands before that key.
UnknownRejected ==
  \A c \in Calls :
    (Decoded(c) /\ Foreign(c) # {}) =>
      LET i == Min(Foreign(c))
      IN /\ is_err(Outcome(c))
         /\ ( /\ deserializer[c].enter
              /\ \/ i = 1
                 \/ i = 2 /\ Fields(c)[1].key = "bits" /\ Fields(c)[1].value >= 0 ) =>
              Outcome(c) = [tag |-> "Err",
                            err |-> [kind |-> "UnknownField", field |-> Fields(c)[i].key,
                                     expected |-> << "bits" >>]]

\* A well-formed `bits` followed by `extra` was rejected, naming extra.
UnknownRejectedWitness ==
  \E c \in Calls :
    /\ Decoded(c)
    /\ Len(Fields(c)) = 2
    /\ Fields(c)[1].key = "bits" /\ Fields(c)[1].value = 3
    /\ Fields(c)[2].key = "extra"
    /\ is_err(Outcome(c)) /\ Outcome(c).err.kind = "UnknownField"
    /\ Outcome(c).err.field = "extra"

\* C6. The record of no entries fails with MissingField naming `bits`, and
\* MissingField is the outcome of no other record that can be entered: the
\* end of a record is met with no `bits` collected only when it has no entry.
MissingRejected ==
  \A c \in Calls :
    Decoded(c) =>
      /\ (deserializer[c].enter /\ Fields(c) = << >>) =>
           Outcome(c) = [tag |-> "Err",
                         err |-> [kind |-> "MissingField", field |-> "bits",
                                  expected |-> << >>]]
      /\ (is_err(Outcome(c)) /\ Outcome(c).err.kind = "MissingField") =>
           Fields(c) = << >>
      /\ (bits[c] = None /\ deserializer[c].enter /\ pos[c] = Len(Fields(c))) =>
           (Fields(c) = << >> /\ is_err(Outcome(c)))

\* The record of no entries was decoded.
MissingRejectedWitness ==
  \E c \in Calls :
    /\ Decoded(c) /\ deserializer[c].enter /\ Fields(c) = << >>
    /\ is_err(Outcome(c)) /\ Outcome(c).err.kind = "MissingField"

\* The number of times call c has made the call named n.
Count(c, n) == Cardinality({ i \in 1 .. Len(trace[c]) : trace[c][i] = n })

\* C7. A decode ends in one outcome, a flags value or one error, and has none
\* before it ends; when it ends in an error from_bits_retain was never called,
\* also when a value of `bits` had been collected; when it ends in a value
\* from_bits_retain was called once, on the value collected.
NoPartialResult ==
  \A c \in Calls :
    op[c] = "deserialize" =>
      /\ Len(result[c]) = (IF pc[c] = "done" THEN 1 ELSE 0)
      /\ pc[c] # "done" => Count(c, "from_bits_retain") = 0
      /\ (Decoded(c) /\ is_err(Outcome(c))) => Count(c, "from_bits_retain") = 0
      /\ (Decoded(c) /\ is_ok(Outcome(c))) =>
           /\ Count(c, "from_bits_retain") = 1
           /\ Outcome(c).val.bits = unwrap(bits[c])

\* A decode failed after it had collected a value of `bits`.
NoPartialResultWitness ==
  \E c \in Calls :
    /\ Decoded(c) /\ is_err(Outcome(c))
    /\ is_some(bits[c])

\* C8. Where the framework fails, decode returns the framework's error: when
\* the record cannot be entered, when a key cannot be read, when the value of
\* `bits` is no raw integer.  It returns a framework error in no other case.
FrameworkError(site) ==
  [tag |-> "Err", err |-> [kind |-> "Transport", field |-> site, expected |-> << >>]]

TransportPassThrough ==
  \A c \in Calls :
    Decoded(c) =>
      LET d == deserializer[c]
          n == Len(d.fields)
          first_read == n >= 1 /\ d.fields[1].key = "bits" /\ d.fields[1].value >= 0
          at_enter == ~d.enter
          at_key == \/ d.enter /\ n >= 1 /\ d.fields[1].key = Malformed
                    \/ d.enter /\ first_read /\ n >= 2 /\ d.fields[2].key = Malformed
          at_value == d.enter /\ n >= 1 /\ d.fields[1].key = "bits" /\ d.fields[1].value < 0
      IN /\ at_enter => Outcome(c) = FrameworkError("deserialize_struct")
         /\ at_key => Outcome(c) = FrameworkError("next_key")
         /\ at_value => Outcome(c) = FrameworkError("next_value")
         /\ (is_err(Outcome(c)) /\ Outcome(c).err.kind = "Transport") =>
              (at_enter \/ at_key \/ at_value)

\* A decode failed on a value of `bits` that is no raw integer.
TransportPassThroughWitness ==
  \E c \in Calls :
    /\ Decoded(c) /\ deserializer[c].enter
    /\ Len(Fields(c)) >= 1 /\ Fields(c)[1].key = "bits" /\ Fields(c)[1].value < 0
    /\ Outcome(c) = FrameworkError("next_value")

\* C9. Encode fails exactly when one of the serializer's three calls fails; it
\* returns that call's error, and the failing call is the last it makes.
EncodePropagates ==
  \A c \in Calls :
    Encoded(c) =>
      LET f == serializer[c].failAt
      IN /\ is_err(Outcome(c)) <=> f # "none"
         /\ f # "none" => Outcome(c) = FrameworkError(f)
         /\ f = "serialize_struct" =>
              (trace[c] = << "serialize_struct" >> /\ sink[c] = << >>)
         /\ f = "serialize_field" =>
              (trace[c] = << "serialize_struct", "serialize_field" >> /\ Len(sink[c]) = 1)
         /\ f = "end" =>
              ( /\ trace[c] = << "serialize_struct", "serialize_field", "end" >>
                /\ Len(sink[c]) = 2 )

\* An encode failed at the write of the field.
EncodePropagatesWitness ==
  \E c \in Calls :
    /\ Encoded(c) /\ serializer[c].failAt = "serialize_field"
    /\ is_err(Outcome(c))

\* C10. Two decodes of records with the same entries and different labels end
\* in the same outcome, after the same calls.
LabelIgnored ==
  ( /\ Calls = {1, 2}
    /\ Decoded(1) /\ Decoded(2)
    /\ deserializer[1].label # deserializer[2].label
    /\ deserializer[1].fields = deserializer[2].fields
    /\ deserializer[1].enter = deserializer[2].enter ) =>
    /\ result[1] = result[2]
    /\ trace[1] = trace[2]

\* Two records that differ in the label alone were both decoded to a value.
LabelIgnoredWitness ==
  /\ Calls = {1, 2}
  /\ Decoded(1) /\ Decoded(2)
  /\ deserializer[1].label # deserializer[2].label
  /\ deserializer[1].fields = deserializer[2].fields
  /\ is_ok(Outcome(1)) /\ is_ok(Outcome(2))

\* C11. Under every interleaving of two calls, a call ends as it ends when it
\* runs alone on the same arguments: call 1, whatever call 2 does beside it,
\* makes the calls call 0 made, in the same order, writes what call 0 wrote
\* and returns what call 0 returned.
CallsIndependent ==
  (Calls = {0, 1, 2} /\ pc[0] = "done" /\ pc[1] # "idle") =>
    /\ Len(trace[1]) <= Len(trace[0])
    /\ trace[1] = SubSeq(trace[0], 1, Len(trace[1]))
    /\ Len(sink[1]) <= Len(sink[0])
    /\ sink[1] = SubSeq(sink[0], 1, Len(sink[1]))
    /\ pc[1] = "done" =>
         /\ result[1] = result[0]
         /\ trace[1] = trace[0]
         /\ sink[1] = sink[0]

\* Call 1 has ended a decode while call 2, a decode as well, is between two
\* fields with a value in its own accumulator.
CallsIndependentWitness ==
  /\ Calls = {0, 1, 2}
  /\ pc[0] = "done" /\ Decoded(1)
  /\ op[2] = "deserialize" /\ pc[2] = "next_key" /\ is_some(bits[2])
  /\ is_some(bits[1])

\* The key call c is about to be handed, when it is about to ask for one and
\* the record has one left.
AtKey(c) == op[c] = "deserialize" /\ pc[c] = "next_key" /\ pos[c] < Len(Fields(c))
KeyAhead(c) == Fields(c)[pos[c] + 1].key

\* C12. When the visitor is handed a key other than `bits`, with or without a
\* value of `bits` collected, its next step ends the call with UnknownField
\* carrying that key and the list of the one name `bits`, and leaves the
\* accumulator and the cursor as they were; no entry the cursor has passed has
\* a key other than `bits`.
ForeignFieldFails ==
  [][ \A c \in Calls :
        /\ (AtKey(c) /\ KeyAhead(c) \notin {"bits", Malformed} /\ trace'[c] # trace[c]) =>
             /\ pc'[c] = "done"
             /\ result'[c] = << [tag |-> "Err",
                                 err |-> [kind |-> "UnknownField", field |-> KeyAhead(c),
                                          expected |-> << "bits" >>]] >>
             /\ bits'[c] = bits[c]
             /\ pos'[c] = pos[c]
        /\ op'[c] = "deserialize" =>
             \A i \in 1 .. pos'[c] : deserializer'[c].fields[i].key = "bits"
    ]_vars

\* A key other than `bits` ended a decode that had collected a value of `bits`.
ForeignFieldFailsWitness ==
  \E c \in Calls :
    /\ Decoded(c) /\ is_some(bits[c]) /\ pos[c] = 1
    /\ Len(Fields(c)) >= 2 /\ Fields(c)[2].key = "flags"
    /\ is_err(Outcome(c)) /\ Outcome(c).err.kind = "UnknownField"
    /\ Outcome(c).err.field = "flags"

\* C13. The accumulator of a decode starts empty; it is filled only by the
\* read of the value of the first `bits` of the record, with that value; once
\* filled it is never emptied nor changed; a second `bits` ends the call with
\* DuplicateField and leaves it as it was.
AccumulatorWrittenOnce ==
  [][ \A c \in Calls :
        /\ (op[c] # "deserialize" /\ op'[c] = "deserialize") => bits'[c] = << >>
        /\ (op[c] = "deserialize" /\ op'[c] = "deserialize") =>
             /\ bits[c] # << >> => bits'[c] = bits[c]
             /\ (bits[c] = << >> /\ bits'[c] # << >>) =>
                  /\ pc[c] = "next_value"
                  /\ Fields(c)[pos[c] + 1].key = "bits"
                  /\ \A i \in 1 .. pos[c] : Fields(c)[i].key # "bits"
                  /\ bits'[c] = << Fields(c)[pos[c] + 1].value >>
             /\ (AtKey(c) /\ KeyAhead(c) = "bits" /\ bits[c] # << >> /\ trace'[c] # trace[c]) =>
                  /\ result'[c] = << [tag |-> "Err",
                                      err |-> [kind |-> "DuplicateField", field |-> "bits",
                                               expected |-> << >>]] >>
                  /\ bits'[c] = bits[c]
    ]_vars

\* A second `bits`, of another value, ended a decode whose accumulator still
\* holds the value of the first.
AccumulatorWrittenOnceWitness ==
  \E c \in Calls :
    /\ Decoded(c) /\ Len(Fields(c)) >= 2
    /\ Fields(c)[1].key = "bits" /\ Fields(c)[2].key = "bits"
    /\ Fields(c)[1].value # Fields(c)[2].value
    /\ bits[c] = << Fields(c)[1].value >>
    /\ is_err(Outcome(c)) /\ Outcome(c).err.kind = "DuplicateField"

\* Entry i of call c's record offends: its key cannot be read, or is not
\* `bits`, or is a `bits` that follows another, or is a `bits` whose value is no
\* raw integer.
Offends(c, i) ==
  \/ Fields(c)[i].key # "bits"
  \/ \E j \in 1 .. (i - 1) : Fields(c)[j].key = "bits"
  \/ Fields(c)[i].value < 0

Offending(c) == { i \in 1 .. Len(Fields(c)) : Offends(c, i) }

\* The error entry i raises when it is the first to offend.
OffenceOf(c, i) ==
  LET e == Fields(c)[i]
  IN IF e.key = Malformed THEN [kind |-> "Transport", field |-> "next_key", expected |-> << >>]
     ELSE IF e.key # "bits"
     THEN [kind |-> "UnknownField", field |-> e.key, expected |-> << "bits" >>]
     ELSE IF \E j \in 1 .. (i - 1) : Fields(c)[j].key = "bits"
     THEN [kind |-> "DuplicateField", field |-> "bits", expected |-> << >>]
     ELSE [kind |-> "Transport", field |-> "next_value", expected |-> << >>]

\* C14. The entries of a record are taken in their order and the first that
\* offends decides the outcome: the decode returns the error of that entry,
\* having asked for as many keys as the entry's place in the record and for no
\* key or value after the request that failed; what follows the entry is
\* never asked for.
FirstErrorWins ==
  \A c \in Calls :
    (Decoded(c) /\ deserializer[c].enter /\ Offending(c) # {}) =>
      LET f == Min(Offending(c))
          e == OffenceOf(c, f)
      IN /\ Outcome(c) = [tag |-> "Err", err |-> e]
         /\ Count(c, "next_key") = f
         /\ pos[c] = f - 1
         /\ Count(c, "next_value") = Cardinality({ i \in 1 .. f : Fields(c)[i].key = "bits"
                                                     /\ (i < f \/ e.field = "next_value") })
         /\ trace[c][Len(trace[c])] = (IF e.field = "next_value" THEN "next_value"
                                                                 ELSE "next_key")
         /\ Count(c, "from_bits_retain") = 0

\* [bits, bits, extra] failed as a duplicate at its second key, and the third
\* key was never asked for.
FirstErrorWinsWitness ==
  \E c \in Calls :
    /\ Decoded(c) /\ Len(Fields(c)) = 3
    /\ Fields(c)[1].key = "bits" /\ Fields(c)[2].key = "bits" /\ Fields(c)[3].key = "extra"
    /\ is_err(Outcome(c)) /\ Outcome(c).err.kind = "DuplicateField"
    /\ Count(c, "next_key") = 2

\* C15. A decode asks for a value at most once, and only right after it was
\* handed the key `bits` with its accumulator empty: the value of a key other
\* than `bits` and the value of a second `bits` are never asked for, so that a
\* second `bits` whose value cannot be read fails with DuplicateField.
ValueRequestedOnce ==
  \A c \in Calls :
    op[c] = "deserialize" =>
      /\ Count(c, "next_value") <= 1
      /\ \A i \in 1 .. Len(trace[c]) :
           trace[c][i] = "next_value" => (i > 1 /\ trace[c][i - 1] = "next_key")
      /\ pc[c] = "next_value" =>
           /\ bits[c] = << >>
           /\ pos[c] < Len(Fields(c))
           /\ Fields(c)[pos[c] + 1].key = "bits"
      /\ Count(c, "next_value") = 1 =>
           (Fields(c) # << >> /\ Fields(c)[1].key = "bits" /\ pos[c] <= 1)
      /\ ( /\ Decoded(c) /\ deserializer[c].enter /\ Len(Fields(c)) >= 2
           /\ Fields(c)[1].key = "bits" /\ Fields(c)[1].value >= 0
           /\ Fields(c)[2].key = "bits" /\ Fields(c)[2].value < 0 ) =>
           ( /\ is_err(Outcome(c)) /\ Outcome(c).err.kind = "DuplicateField"
             /\ Count(c, "next_value") = 1 )

\* A second `bits` whose value is no raw integer was rejected as a duplicate.
ValueRequestedOnceWitness ==
  \E c \in Calls :
    /\ Decoded(c) /\ Len(Fields(c)) >= 2
    /\ Fields(c)[1].key = "bits" /\ Fields(c)[1].value >= 0
    /\ Fields(c)[2].key = "bits" /\ Fields(c)[2].value < 0
    /\ is_err(Outcome(c)) /\ Outcome(c).err.kind = "DuplicateField"

\* C16. A decode of a finite record ends: it asks for at most one key more
\* than the record has entries, each request for a key is for an entry it has
\* not been handed yet, after its last possible request visit_map has
\* returned, and every decode that was entered reaches its return.
DecodeTerminates ==
  /\ [](\A c \in Calls :
          op[c] = "deserialize" =>
            /\ Count(c, "next_key") <= Len(Fields(c)) + 1
            /\ Count(c, "next_key") <= pos[c] + 1
            /\ Len(trace[c]) <= 2 * Len(Fields(c)) + 3
            /\ Count(c, "next_key") = Len(Fields(c)) + 1 =>
                 pc[c] \in {"from_bits_retain", "done"})
  /\ (op[1] = "deserialize") ~> (op[1] = "deserialize" /\ pc[1] = "done")

\* A decode has ended on the request for a key that follows the last entry of
\* its record.
DecodeTerminatesWitness ==
  \E c \in Calls :
    /\ Decoded(c) /\ Len(Fields(c)) = 1
    /\ Count(c, "next_key") = 2
    /\ is_ok(Outcome(c))

====
